---------------------------- MODULE Spec2Model ----------------------------
(***************************************************************************)
(* Model of prettyPrinters/gdb_providers.py: the pretty-printer providers  *)
(* that decode Rust standard-library values for gdb.                       *)
(*                                                                         *)
(* A state is one decode session: the value handle under inspection        *)
(* (valobj: the fields the provider reads from the inferior's memory), the *)
(* provider instance built from it (prov: the attributes __init__ sets on  *)
(* self), the text last returned by to_string(), and the generator object  *)
(* returned by children() together with what it has yielded so far.        *)
(*                                                                         *)
(* A child value is a lazy gdb.Value: it is modelled by the place it is    *)
(* read from, [addr, field], never by the bytes found there.               *)
(***************************************************************************)
EXTENDS Integers, Sequences, FiniteSets

VARIABLES valobj, prov, summary, gen, yielded, first, scanned

vars == <<valobj, prov, summary, gen, yielded, first, scanned>>

(***************************************************************************)
(* Bounds of the model.                                                    *)
(***************************************************************************)
MaxLen == 3

MaxCap == 4

MaxBorrow == 3

MaxVariants == 3

MaxKeys == 8

MaxHeight == 2

MaxBucketExp == 2

MaxOldExp == 8

(***************************************************************************)
(* Python helpers: str(int), str.format, x & ~y on non-negative ints.      *)
(***************************************************************************)
Digits == <<"0", "1", "2", "3", "4", "5", "6", "7", "8", "9">>

RECURSIVE Str(_)
Str(n) ==
    IF n < 0 THEN "-" \o Str(-n)
    ELSE IF n < 10 THEN Digits[n + 1]
    ELSE Str(n \div 10) \o Digits[(n % 10) + 1]

Hole == "{}"

\* tpl is the format string cut at its replacement fields: "size={}" is
\* <<"size=", Hole>>.  Text outside a replacement field is copied, each
\* field is replaced by str(arg); a template without a field ignores arg.
RECURSIVE Format(_, _)
Format(tpl, arg) ==
    IF tpl = <<>> THEN ""
    ELSE (IF Head(tpl) = Hole THEN Str(arg) ELSE Head(tpl)) \o Format(Tail(tpl), arg)

\* x & ~y for x, y >= 0 (Python ints are unbounded: ~y clears y's bits in x).
RECURSIVE AndNot(_, _)
AndNot(x, y) ==
    IF x = 0 THEN 0
    ELSE (x % 2) * (1 - (y % 2)) + 2 * AndNot(x \div 2, y \div 2)

RECURSIVE BitAnd(_, _)
BitAnd(x, y) ==
    IF x = 0 \/ y = 0 THEN 0
    ELSE (x % 2) * (y % 2) + 2 * BitAnd(x \div 2, y \div 2)

Range(s) == {s[i] : i \in 1..Len(s)}

Entry(key, addr, field) == [key |-> key, src |-> [addr |-> addr, field |-> field]]

(***************************************************************************)
(* The values a session may inspect.                                       *)
(***************************************************************************)
DataPtrs == {16, 40}

\* Vec<T>: len <= cap, buf.ptr.
VecValues ==
    {v \in [kind : {"Vec"}, len : 0..MaxLen, cap : 0..(MaxLen + 1), ptr : DataPtrs] :
        v.len <= v.cap}

\* VecDeque<T>: head and tail index the buffer's cap slots.
VecDequeValues ==
    {[kind |-> "VecDeque", head |-> 0, tail |-> 0, cap |-> 0, ptr |-> 16]} \cup
    {v \in [kind : {"VecDeque"}, head : 0..MaxCap, tail : 0..MaxCap,
            cap : 1..MaxCap, ptr : {16}] :
        v.head < v.cap /\ v.tail < v.cap}

\* RefCell<T> and Ref<T>: the signed borrow flag.
CellValues ==
    [kind : {"RefCell", "Ref"}, borrow : (-MaxBorrow)..MaxBorrow]

\* An enum: the fields of its content union, and the tag stored in the
\* first of them when there are at least two.  The tag of a live value
\* names one of the variants that follow it.
VariantNames == <<"RUST$ENUM$DISR", "A", "B", "C", "D">>

EnumValues ==
    {v \in [kind : {"Enum"}, type : {"E"},
            fields : {SubSeq(VariantNames, 1, k) : k \in 0..(MaxVariants + 1)} \cup {<<"A">>},
            tag : 0..(MaxVariants - 1)] :
        IF Len(v.fields) < 2 THEN v.tag = 0 /\ v.fields # <<"RUST$ENUM$DISR">>
        ELSE v.tag <= Len(v.fields) - 2}

\* A B-tree node: len keys (and values) and, above the leaves, len + 1
\* edges.  The value stored with key k is ValOf(k).
ValOf(k) == 100 + k

Node(keys, edges) ==
    [keys |-> keys, vals |-> [i \in 1..Len(keys) |-> ValOf(keys[i])], edges |-> edges]

\* Trees(h, lo, n): the subtrees of height h that hold the n keys
\* lo+1 .. lo+n, every node with at least one key.  Splits(h, lo, n, l): the
\* ways to lay these keys out as l keys of the node itself and l + 1 edges
\* around them.
RECURSIVE Trees(_, _, _), Splits(_, _, _, _)
Trees(h, lo, n) ==
    IF h = 0
    THEN IF n >= 1 THEN {Node([i \in 1..n |-> lo + i], <<>>)} ELSE {}
    ELSE UNION {Splits(h, lo, n, l) : l \in 1..n}

Splits(h, lo, n, l) ==
    IF l = 0
    THEN {Node(<<>>, <<c>>) : c \in Trees(h - 1, lo, n)}
    ELSE UNION {{Node(<<lo + m + 1>> \o r.keys, <<c>> \o r.edges) :
                    c \in Trees(h - 1, lo, m),
                    r \in Splits(h, lo + m + 1, n - m - 1, l - 1)} :
                m \in 1..(n - 1)}

\* BTreeSet<K> / BTreeMap<K, V>: length, root.height, root.node.  The empty
\* map is a root leaf without keys.
BTreeValues ==
    UNION {{[kind |-> k, length |-> n, height |-> h, root |-> t] :
               k \in {"BTreeSet", "BTreeMap"},
               t \in IF n = 0 /\ h = 0 THEN {Node(<<>>, <<>>)} ELSE Trees(h, 0, n)} :
           h \in 0..MaxHeight, n \in 0..MaxKeys}

\* hashbrown's control bytes: EMPTY, DELETED, and a full bucket's 7 hash bits.
CtrlBytes == {255, 128, 1}

CountFull(ctrl) == Cardinality({i \in 1..Len(ctrl) : ctrl[i] < 128})

\* HashMap / HashSet over hashbrown's RawTable: bucket_mask, ctrl, items, data.
HashValues ==
    UNION {{[kind |-> "HashMap", show_values |-> sv, bucket_mask |-> 2^e - 1,
             ctrl |-> c, items |-> CountFull(c), data |-> 64] :
               sv \in BOOLEAN, c \in [1..(2^e) -> CtrlBytes]} :
           e \in 0..MaxBucketExp}

\* The hash words of a legacy RawTable of the given capacity (RawTable
\* allows every power of two): 0 in an empty bucket, a SafeHash (never 0) in
\* a full one.  The full buckets are any of the first, the middle and the
\* last bucket.
HashWords(capacity) ==
    {[i \in 1..capacity |-> IF (i - 1) \in full THEN 9 ELSE 0] :
        full \in SUBSET {0, capacity \div 2, capacity - 1}}

CountNonZero(hashes) == Cardinality({i \in 1..Len(hashes) : hashes[i] # 0})

\* size_of::<(K, V)>()
PairSizes == {8, 24, 32}

\* size_of::<usize>() of the inferior
HashUintSizes == {4, 8}

\* The legacy HashMap / HashSet: table.size, table.capacity_mask,
\* table.hashes (a tagged pointer: bit 0 is the long-probe tag), the hash
\* words it points to, and the pair type.
OldHashValues ==
    UNION {{[kind |-> "OldHashMap", show_values |-> sv, size |-> CountNonZero(w),
             capacity_mask |-> 2^e - 1, hash_uint_size |-> us, hashes |-> w,
             data_ptr |-> 4096 + tag, pair_type_size |-> ps] :
               sv \in BOOLEAN, w \in HashWords(2^e), us \in HashUintSizes,
               tag \in {0, 1}, ps \in PairSizes} :
           e \in 0..MaxOldExp}

Values ==
    VecValues \cup VecDequeValues \cup CellValues \cup EnumValues \cup
    BTreeValues \cup HashValues \cup OldHashValues

(***************************************************************************)
(* __init__ of each provider.                                              *)
(***************************************************************************)
StdVecProvider(v) ==
    [kind |-> "Vec", length |-> v.len, data_ptr |-> v.ptr]

VecDequeSize(head, tail, cap) ==
    IF head >= tail THEN head - tail ELSE cap + head - tail

StdVecDequeProvider(v) ==
    [kind |-> "VecDeque", head |-> v.head, tail |-> v.tail, cap |-> v.cap,
     data_ptr |-> v.ptr, size |-> VecDequeSize(v.head, v.tail, v.cap)]

StdRefCellProvider(v) == [kind |-> v.kind, borrow |-> v.borrow]

\* Mutant of EnumDiscriminant: the tag is used as the index.
EnumDiscriminantNoSkip(fields, tag) ==
    IF Len(fields) = 1 THEN 0 ELSE tag

EnumDiscriminant(fields, tag) ==
    IF Len(fields) = 1 THEN 0 ELSE tag + 1

\* fields[discriminant] is 0-based in the code, 1-based here.
EnumProvider(v) ==
    IF Len(v.fields) = 0
    THEN [kind |-> "Enum", empty |-> TRUE, full_name |-> v.type]
    ELSE LET discriminant == EnumDiscriminant(v.fields, v.tag)
             name == v.fields[discriminant + 1]
         IN  [kind |-> "Enum", empty |-> FALSE, active_variant |-> discriminant,
              name |-> name, full_name |-> v.type \o "::" \o name]

\* The tree providers keep the handle only.
StdBTreeProvider(v) == [kind |-> v.kind, valobj |-> v]

\* value & 128 == 0 (& binds tighter than == in Python)
IsPresented(value) == BitAnd(value, 128) = 0

\* range(n)
PyRange(n) == [i \in 1..n |-> i - 1]

\* for idx in range(capacity): valid collects the indices whose control byte
\* passes the test, reads the indices examined.  ctrl[idx] is 0-based in the
\* code.
ScanCtrl(ctrl, capacity) ==
    LET Presented(idx) == IsPresented(ctrl[idx + 1])
    IN  [valid |-> SelectSeq(PyRange(capacity), Presented),
         reads |-> PyRange(capacity)]

HashCapacity(bucket_mask) == bucket_mask + 1

StdHashMapProvider(v) ==
    [kind |-> "HashMap", show_values |-> v.show_values, size |-> v.items,
     data_ptr |-> v.data,
     valid_indices |-> ScanCtrl(v.ctrl, HashCapacity(v.bucket_mask)).valid]

OldModulo(hash_uint_size) == 2 ^ hash_uint_size

OldCapacity(capacity_mask, modulo) == (capacity_mask + 1) % modulo

\* for idx in range(self.capacity): valid collects the indices whose hash word
\* is not 0, reads the indices examined.
ScanHashes(hashes, capacity) ==
    LET NonZero(idx) == hashes[idx + 1] # 0
    IN  [valid |-> SelectSeq(PyRange(capacity), NonZero),
         reads |-> PyRange(capacity)]

StdOldHashMapProvider(v) ==
    LET modulo == OldModulo(v.hash_uint_size)
        capacity == OldCapacity(v.capacity_mask, modulo)
    IN  [kind |-> "OldHashMap", show_values |-> v.show_values, size |-> v.size,
         hash_uint_size |-> v.hash_uint_size, modulo |-> modulo,
         data_ptr |-> v.data_ptr, capacity_mask |-> v.capacity_mask,
         capacity |-> capacity, pair_type_size |-> v.pair_type_size,
         valid_indices |-> ScanHashes(v.hashes, capacity).valid]

NewProvider(v) ==
    CASE v.kind = "Vec" -> StdVecProvider(v)
      [] v.kind = "VecDeque" -> StdVecDequeProvider(v)
      [] v.kind \in {"RefCell", "Ref"} -> StdRefCellProvider(v)
      [] v.kind = "Enum" -> EnumProvider(v)
      [] v.kind \in {"BTreeSet", "BTreeMap"} -> StdBTreeProvider(v)
      [] v.kind = "HashMap" -> StdHashMapProvider(v)
      [] v.kind = "OldHashMap" -> StdOldHashMapProvider(v)

\* The bucket indices __init__ dereferences, in order.
ConstructorReads(v) ==
    CASE v.kind = "HashMap" -> ScanCtrl(v.ctrl, HashCapacity(v.bucket_mask)).reads
      [] v.kind = "OldHashMap" ->
            ScanHashes(v.hashes,
                       OldCapacity(v.capacity_mask, OldModulo(v.hash_uint_size))).reads
      [] OTHER -> <<>>

(***************************************************************************)
(* to_string of each provider.                                             *)
(***************************************************************************)
\* Mutant of BorrowToString: > for >=.
BorrowToStringStrict(borrow) ==
    IF borrow > 0 THEN Format(<<"borrow=", Hole>>, borrow)
    ELSE Format(<<"borrow_mut=", Hole>>, -borrow)

BorrowToString(borrow) ==
    IF borrow >= 0 THEN Format(<<"borrow=", Hole>>, borrow)
    ELSE Format(<<"borrow_mut=", Hole>>, -borrow)

BTreeToString(length) == Format(<<"size=">>, length)

to_string(p) ==
    CASE p.kind = "Vec" -> Format(<<"size=", Hole>>, p.length)
      [] p.kind = "VecDeque" -> Format(<<"size=", Hole>>, p.size)
      [] p.kind \in {"RefCell", "Ref"} -> BorrowToString(p.borrow)
      [] p.kind = "Enum" -> p.full_name
      [] p.kind \in {"BTreeSet", "BTreeMap"} -> BTreeToString(p.valobj.length)
      [] p.kind \in {"HashMap", "OldHashMap"} -> Format(<<"size=", Hole>>, p.size)

(***************************************************************************)
(* children(): a generator.  gen.state is "none" (no generator), "running" *)
(* (created or suspended at a yield), "done" (StopIteration) or "raised".  *)
(***************************************************************************)
\* index: the loop counter; child: the element whose second half (a map's
\* value) is still to be yielded; stack: the suspended frames of
\* children_of_node, the innermost last.
NoGen == [state |-> "none", index |-> 0, child |-> <<>>, stack |-> <<>>]

Frame(node, height) == [node |-> node, height |-> height, i |-> 0, pc |-> "edge"]

NewGen(p) ==
    [state |-> "running", index |-> 0, child |-> <<>>,
     stack |-> IF p.kind \in {"BTreeSet", "BTreeMap"}
               THEN <<Frame(p.valobj.root, p.valobj.height)>> ELSE <<>>]

Yield(g, e) == [gen |-> g, out |-> <<e>>]

Stop(g) == [gen |-> [g EXCEPT !.state = "done"], out |-> <<>>]

Raise(g) == [gen |-> [g EXCEPT !.state = "raised"], out |-> <<>>]

\* Mutant of VecNext: the loop runs one index too far.
VecNextOffByOne(p, g) ==
    IF g.index <= p.length
    THEN Yield([g EXCEPT !.index = @ + 1],
               Entry(Format(<<"[", Hole, "]">>, g.index), p.data_ptr + g.index, ""))
    ELSE Stop(g)

VecNext(p, g) ==
    IF g.index < p.length
    THEN Yield([g EXCEPT !.index = @ + 1],
               Entry(Format(<<"[", Hole, "]">>, g.index), p.data_ptr + g.index, ""))
    ELSE Stop(g)

\* Mutant of VecDequeSlot: the index is not wrapped.
VecDequeSlotNoWrap(p, index) == p.tail + index

VecDequeSlot(p, index) == (p.tail + index) % p.cap

VecDequeNext(p, g) ==
    IF g.index < p.size
    THEN Yield([g EXCEPT !.index = @ + 1],
               Entry(Format(<<"[", Hole, "]">>, g.index),
                     p.data_ptr + VecDequeSlot(p, g.index), ""))
    ELSE Stop(g)

RefCellNext(p, g) ==
    IF g.index = 0
    THEN Yield([g EXCEPT !.index = 1],
               Entry(IF p.kind = "Ref" THEN "*value" ELSE "value", 0, "value"))
    ELSE IF g.index = 1
    THEN Yield([g EXCEPT !.index = 2], Entry("borrow", 0, "borrow"))
    ELSE Stop(g)

EnumNext(p, g) ==
    IF g.index = 0 /\ ~p.empty
    THEN Yield([g EXCEPT !.index = 1], Entry(p.name, p.active_variant, p.name))
    ELSE Stop(g)

\* Mutant of LoopBound: the last edge is not walked.
LoopBoundShort(length) == length

\* for i in xrange(0, length + 1)
LoopBound(length) == length + 1

\* children_of_node, run from where it was suspended to its next yield
\* (out = <<item>>) or to the end of the outermost call (out = <<>>).  A
\* frame at pc "edge" is at the top of the loop body for its i, a frame at
\* pc "key" is past the walk of edge i.  keys[i] is 0-based in the code.
RECURSIVE Resume(_, _)
Resume(stack, want_values) ==
    IF stack = <<>> THEN [stack |-> <<>>, out |-> <<>>]
    ELSE LET f == stack[Len(stack)]
             rest == SubSeq(stack, 1, Len(stack) - 1)
             length == Len(f.node.keys)
         IN  IF f.pc = "edge"
             THEN IF f.i >= LoopBound(length) THEN Resume(rest, want_values)
                  ELSE IF f.height > 0
                  THEN Resume(rest \o <<[f EXCEPT !.pc = "key"],
                                         Frame(f.node.edges[f.i + 1], f.height - 1)>>,
                              want_values)
                  ELSE Resume(rest \o <<[f EXCEPT !.pc = "key"]>>, want_values)
             ELSE IF f.i < length
                  THEN [stack |-> rest \o <<[f EXCEPT !.i = @ + 1, !.pc = "edge"]>>,
                        out |-> <<IF want_values
                                  THEN <<f.node.keys[f.i + 1], f.node.vals[f.i + 1]>>
                                  ELSE <<f.node.keys[f.i + 1]>> >>]
                  ELSE Resume(rest \o <<[f EXCEPT !.i = @ + 1, !.pc = "edge"]>>,
                              want_values)

BTreeSetNext(p, g) ==
    LET r == Resume(g.stack, FALSE)
    IN  IF r.out = <<>> THEN Stop([g EXCEPT !.stack = <<>>])
        ELSE Yield([g EXCEPT !.index = @ + 1, !.stack = r.stack],
                   Entry(Format(<<"[", Hole, "]">>, g.index), r.out[1][1], "keys"))

BTreeMapNext(p, g) ==
    IF g.child # <<>>
    THEN Yield([g EXCEPT !.index = @ + 1, !.child = <<>>],
               Entry(Format(<<"val", Hole>>, g.index), g.child[1][2], "vals"))
    ELSE LET r == Resume(g.stack, TRUE)
         IN  IF r.out = <<>> THEN Stop([g EXCEPT !.stack = <<>>])
             ELSE Yield([g EXCEPT !.child = r.out, !.stack = r.stack],
                        Entry(Format(<<"key", Hole>>, g.index), r.out[1][1], "keys"))

\* The entries of one element of a hash table: key then value in map mode,
\* the key alone in set mode.
ElementNext(p, g, element) ==
    IF p.show_values
    THEN IF g.child = <<>>
         THEN Yield([g EXCEPT !.child = <<element>>],
                    Entry(Format(<<"key", Hole>>, g.index), element, "__0"))
         ELSE Yield([g EXCEPT !.index = @ + 1, !.child = <<>>],
                    Entry(Format(<<"val", Hole>>, g.index), element, "__1"))
    ELSE Yield([g EXCEPT !.index = @ + 1],
               Entry(Format(<<"[", Hole, "]">>, g.index), element, "__0"))

\* valid_indices[index] raises IndexError past the end of the list.
HashNext(p, g) ==
    IF g.child # <<>> THEN ElementNext(p, g, g.child[1])
    ELSE IF g.index >= p.size THEN Stop(g)
    ELSE IF g.index >= Len(p.valid_indices) THEN Raise(g)
    ELSE ElementNext(p, g, p.data_ptr + p.valid_indices[g.index + 1])

\* Mutant of LenRoundedUp: the - 1 of the round-up is missing.
LenRoundedUpNoDec(hashes, align, modulo) ==
    LET up == (hashes + align) % modulo
        mask == (align - 1) % modulo
        rounded == AndNot(up, mask) % modulo
    IN  (rounded - hashes) % modulo

\* len_rounded_up: the padding between the hash words and the pairs.
LenRoundedUp(hashes, align, modulo) ==
    LET up == (((hashes + align) % modulo) - 1) % modulo
        mask == (align - 1) % modulo
        rounded == AndNot(up, mask) % modulo
    IN  (rounded - hashes) % modulo

OldHashesSize(p) == p.hash_uint_size * p.capacity

\* The byte address of the pair array.
PairsStart(p) ==
    LET start == AndNot(p.data_ptr, 1)
        hashes == OldHashesSize(p)
        pairs_offset == hashes + LenRoundedUp(hashes, p.pair_type_size, p.modulo)
    IN  start + pairs_offset

\* pairs_start + idx is pointer arithmetic: idx pairs further.
OldHashNext(p, g) ==
    IF g.child # <<>> THEN ElementNext(p, g, g.child[1])
    ELSE IF g.index >= p.size THEN Stop(g)
    ELSE IF g.index >= Len(p.valid_indices) THEN Raise(g)
    ELSE LET table_index == p.valid_indices[g.index + 1]
             idx == BitAnd(table_index, p.capacity_mask)
         IN  ElementNext(p, g, PairsStart(p) + idx * p.pair_type_size)

GenNext(p, g) ==
    CASE p.kind = "Vec" -> VecNext(p, g)
      [] p.kind = "VecDeque" -> VecDequeNext(p, g)
      [] p.kind \in {"RefCell", "Ref"} -> RefCellNext(p, g)
      [] p.kind = "Enum" -> EnumNext(p, g)
      [] p.kind = "BTreeSet" -> BTreeSetNext(p, g)
      [] p.kind = "BTreeMap" -> BTreeMapNext(p, g)
      [] p.kind = "HashMap" -> HashNext(p, g)
      [] p.kind = "OldHashMap" -> OldHashNext(p, g)

\* Mutant of SelfAfterNext: children() consumes the index list it walks.
SelfAfterNextPop(p) ==
    IF p.kind \in {"HashMap", "OldHashMap"} /\ p.valid_indices # <<>>
    THEN [p EXCEPT !.valid_indices = Tail(@)]
    ELSE p

\* What running a generator's body does to the provider's attributes: no
\* children() assigns to self.
SelfAfterNext(p) == p

(***************************************************************************)
(* The session.                                                            *)
(***************************************************************************)
NoSummary == <<>>

NoFirst == <<"none">>

Init ==
    /\ valobj \in Values
    /\ prov = NewProvider(valobj)
    /\ summary = NoSummary
    /\ gen = NoGen
    /\ yielded = <<>>
    /\ first = NoFirst
    /\ scanned = ConstructorReads(valobj)

\* The host asks for the summary, between enumerations.
ToString ==
    /\ gen.state = "none"
    /\ summary' = <<to_string(prov)>>
    /\ UNCHANGED <<valobj, prov, gen, yielded, first, scanned>>

\* The host calls children(): a new generator, nothing run yet.
Children ==
    /\ gen.state = "none"
    /\ gen' = NewGen(prov)
    /\ yielded' = <<>>
    /\ UNCHANGED <<valobj, prov, summary, first, scanned>>

\* The host pulls the next child.
NextChild ==
    /\ gen.state = "running"
    /\ LET r == GenNext(prov, gen)
       IN  /\ gen' = r.gen
           /\ yielded' = yielded \o r.out
           /\ first' = IF r.gen.state = "done" /\ first = NoFirst
                       THEN <<"seq", yielded>> ELSE first
    /\ prov' = SelfAfterNext(prov)
    /\ UNCHANGED <<valobj, summary, scanned>>

\* The host drops the generator, finished or not.
Abandon ==
    /\ gen.state # "none"
    /\ gen' = NoGen
    /\ yielded' = <<>>
    /\ UNCHANGED <<valobj, prov, summary, first, scanned>>

Next == ToString \/ Children \/ NextChild \/ Abandon

Spec == Init /\ [][Next]_vars

(***************************************************************************)
(* Vocabulary of the properties.                                           *)
(***************************************************************************)
IsVec == valobj.kind = "Vec"

IsVecDeque == valobj.kind = "VecDeque"

IsCell == valobj.kind \in {"RefCell", "Ref"}

IsEnum == valobj.kind = "Enum"

IsBTree == valobj.kind \in {"BTreeSet", "BTreeMap"}

IsHash == valobj.kind = "HashMap"

IsOldHash == valobj.kind = "OldHashMap"

Done == gen.state = "done"

IndexKey(i) == "[" \o Str(i) \o "]"

RECURSIVE AllKeys(_)
AllKeys(node) ==
    Range(node.keys) \cup UNION {AllKeys(node.edges[i]) : i \in 1..Len(node.edges)}

\* The ordering of a B-tree, stated on the sets of keys: a node's keys
\* ascend, the subtree left of a key holds only smaller keys, the subtree
\* right of it only greater ones; a node above the leaves has one edge more
\* than it has keys, a leaf none.
RECURSIVE IsSearchTree(_, _)
IsSearchTree(node, height) ==
    LET len == Len(node.keys)
    IN  /\ Len(node.vals) = len
        /\ Len(node.edges) = IF height > 0 THEN len + 1 ELSE 0
        /\ \A i \in 1..(len - 1) : node.keys[i] < node.keys[i + 1]
        /\ \A e \in 1..Len(node.edges) :
              /\ IsSearchTree(node.edges[e], height - 1)
              /\ \A k \in AllKeys(node.edges[e]) :
                    /\ e <= len => k < node.keys[e]
                    /\ e > 1 => k > node.keys[e - 1]

IsPrefix(s, t) == Len(s) <= Len(t) /\ \A i \in 1..Len(s) : s[i] = t[i]

\* The buckets of a legacy table that hold a hash, ascending.
Occupied(hashes) ==
    LET Full(idx) == hashes[idx + 1] # 0
    IN  SelectSeq([i \in 1..Len(hashes) |-> i - 1], Full)

\* The entries a hash table yields per element.
PerElement == IF valobj.show_values THEN 2 ELSE 1

\* The element (0-based) the j-th yielded entry belongs to.
ElementOf(j) == (j - 1) \div PerElement

(***************************************************************************)
(* C1: for a B-tree of height 0, 1 or 2 with keys k1 < .. < kn in search-  *)
(* tree order, a completed enumeration yields exactly the n keys, each     *)
(* once, ascending, and in map mode each key is followed by its own value. *)
(***************************************************************************)
C1_InOrderTraversal ==
    (IsBTree /\ Done) =>
        LET ks == AllKeys(valobj.root)
            n == Cardinality(ks)
            step == IF valobj.kind = "BTreeMap" THEN 2 ELSE 1
            keyAt(j) == yielded[step * (j - 1) + 1].src
        IN  /\ IsSearchTree(valobj.root, valobj.height)
            /\ Len(yielded) = step * n
            /\ \A j \in 1..n :
                  /\ keyAt(j).field = "keys"
                  /\ keyAt(j).addr \in ks
                  /\ j < n => keyAt(j).addr < keyAt(j + 1).addr
                  /\ step = 2 =>
                        yielded[2 * j].src =
                            [addr |-> ValOf(keyAt(j).addr), field |-> "vals"]

C1_Witness ==
    /\ valobj.kind = "BTreeMap"
    /\ valobj.height = 2
    /\ valobj.length >= 7
    /\ Done
    /\ Len(yielded) = 2 * valobj.length

(***************************************************************************)
(* C2: both hash-table providers: the occupied-index list is as long as    *)
(* the reported size, a completed enumeration yields size elements (two    *)
(* entries each in map mode), no enumeration fails, and every entry is     *)
(* read from an occupied bucket.                                           *)
(***************************************************************************)
C2_OccupiedOnly ==
    (IsHash \/ IsOldHash) =>
        /\ Len(prov.valid_indices) = prov.size
        /\ gen.state # "raised"
        /\ Done => Len(yielded) = prov.size * PerElement
        /\ IsHash =>
              \A j \in 1..Len(yielded) :
                  LET idx == yielded[j].src.addr - valobj.data
                  IN  idx \in 0..valobj.bucket_mask /\ valobj.ctrl[idx + 1] < 128

(***************************************************************************)
(* C3: the legacy provider's capacity is capacity_mask + 1 and its scan    *)
(* examines exactly the buckets 0 .. capacity_mask, ascending.             *)
(***************************************************************************)
C3_CapacityIsMaskPlusOne ==
    IsOldHash =>
        /\ prov.capacity = valobj.capacity_mask + 1
        /\ scanned = [i \in 1..(valobj.capacity_mask + 1) |-> i - 1]

(***************************************************************************)
(* C4: ring buffer with capacity C, head h, tail t: the size is h - t or   *)
(* C + h - t, the entries are keyed "[0]".."[size-1]" and the i-th is read *)
(* from slot (t + i) mod C, a slot of the buffer.                          *)
(***************************************************************************)
C4_RingBuffer ==
    IsVecDeque =>
        LET C == valobj.cap
            h == valobj.head
            t == valobj.tail
            size == prov.size
        IN  /\ size = IF h >= t THEN h - t ELSE C + h - t
            /\ C = 0 => size = 0
            /\ C > 0 => size \in 0..(C - 1) /\ (t + size) % C = h
            /\ Len(yielded) <= size
            /\ Done => Len(yielded) = size
            /\ \A i \in 0..(Len(yielded) - 1) :
                  LET slot == yielded[i + 1].src.addr - valobj.ptr
                  IN  /\ yielded[i + 1].key = IndexKey(i)
                      /\ slot = (t + i) % C
                      /\ slot \in 0..(C - 1)

C4_Witness ==
    /\ IsVecDeque
    /\ valobj.cap = 4 /\ valobj.head = 1 /\ valobj.tail = 3
    /\ prov.size = 2
    /\ Done
    /\ yielded = <<Entry("[0]", valobj.ptr + 3, ""), Entry("[1]", valobj.ptr + 0, "")>>

(***************************************************************************)
(* C5: a Vec of length L: the summary is "size=L", the entries are keyed   *)
(* "[0]".."[L-1]" in order, the one keyed "[i]" read at data_ptr + i; a    *)
(* completed enumeration has exactly L of them, whatever the capacity.     *)
(***************************************************************************)
C5_VecChildren ==
    IsVec =>
        /\ summary # NoSummary => summary = <<"size=" \o Str(valobj.len)>>
        /\ Len(yielded) <= valobj.len
        /\ Done => Len(yielded) = valobj.len
        /\ \A i \in 0..(Len(yielded) - 1) :
              yielded[i + 1] = Entry(IndexKey(i), valobj.ptr + i, "")

C5_Witness ==
    /\ IsVec
    /\ valobj.len = 3 /\ valobj.cap = 4 /\ valobj.ptr = 16
    /\ summary = <<"size=3">>
    /\ Done
    /\ yielded = <<Entry("[0]", 16, ""), Entry("[1]", 17, ""), Entry("[2]", 18, "")>>

(***************************************************************************)
(* C6: the summary of the ordered set and map is "size=<count>", the       *)
(* decimal value of the length field.                                      *)
(***************************************************************************)
C6_BTreeSummary ==
    (IsBTree /\ summary # NoSummary) => summary = <<"size=" \o Str(valobj.length)>>

(***************************************************************************)
(* C7: RefCell and Ref with borrow counter n: the summary is "borrow=n"    *)
(* exactly when n >= 0 and "borrow_mut=<-n>" exactly when n < 0; it is     *)
(* one of the two forms, never both, and n = 0 gives "borrow=0".           *)
(***************************************************************************)
C7_BorrowSummary ==
    (IsCell /\ summary # NoSummary) =>
        LET n == valobj.borrow
            shared == "borrow=" \o Str(n)
            exclusive == "borrow_mut=" \o Str(-n)
        IN  /\ (summary = <<shared>>) <=> (n >= 0)
            /\ (summary = <<exclusive>>) <=> (n < 0)
            /\ n = 0 => summary = <<"borrow=0">>

C7_Witness ==
    /\ valobj.kind = "Ref"
    /\ valobj.borrow = -2
    /\ summary = <<"borrow_mut=2">>

(***************************************************************************)
(* C8: an enum whose content has k sub-fields: with k = 0 the summary is   *)
(* the type name and there is no child; with k = 1 the active variant is   *)
(* sub-field 0; with k >= 2 and tag d it is sub-field d + 1, never the tag *)
(* field; then the summary is "<type>::<variant>" and the one child is the *)
(* active variant keyed by its name.                                       *)
(***************************************************************************)
C8_EnumVariant ==
    IsEnum =>
        LET k == Len(valobj.fields)
            active == IF k = 1 THEN 0 ELSE valobj.tag + 1
            name == valobj.fields[active + 1]
        IN  /\ k = 0 =>
                  /\ summary # NoSummary => summary = <<valobj.type>>
                  /\ yielded = <<>>
            /\ k >= 1 =>
                  /\ prov.active_variant = active
                  /\ prov.name = name
                  /\ k >= 2 => prov.active_variant # 0 /\ prov.name # valobj.fields[1]
                  /\ summary # NoSummary => summary = <<valobj.type \o "::" \o name>>
                  /\ Done => yielded = <<Entry(name, active, name)>>

C8_Witness ==
    /\ IsEnum
    /\ Len(valobj.fields) = 3 /\ valobj.tag = 1
    /\ summary = <<"E::B">>
    /\ Done
    /\ yielded = <<Entry("B", 2, "B")>>

(***************************************************************************)
(* C9: the legacy provider reads its pairs from hash_array_start (the data *)
(* pointer without its tag bit) + hashes + padding, hashes being the hash  *)
(* word size times the provider's capacity; every yielded entry is read at *)
(* pairs_start + (occupied bucket index & capacity_mask).  The padding     *)
(* aligns the pair array to the pair size S: 0 <= padding < S and hashes + *)
(* padding is a multiple of S.                                             *)
(***************************************************************************)
\* The body of children() has run: start, hashes and the padding are locals
\* of the generator.
C9_BodyRan == yielded # <<>> \/ gen.state \in {"done", "raised"}

C9_PaddingAligns ==
    LET S == prov.pair_type_size
        hashes == prov.hash_uint_size * prov.capacity
        start == valobj.data_ptr - (valobj.data_ptr % 2)
        padding == PairsStart(prov) - start - hashes
    IN  /\ padding \in 0..(S - 1)
        /\ (hashes + padding) % S = 0

C9_EntriesAtPairs ==
    LET occupied == Occupied(valobj.hashes)
    IN  \A j \in 1..Len(yielded) :
            /\ ElementOf(j) < Len(occupied)
            /\ yielded[j].src.addr =
                  PairsStart(prov)
                  + BitAnd(occupied[ElementOf(j) + 1], valobj.capacity_mask)
                    * prov.pair_type_size

IsPowerOfTwo(n) == n \in {2 ^ k : k \in 0..16}

C10_NoMutation ==
    /\ prov = NewProvider(valobj)
    /\ first # NoFirst =>
          /\ IsPrefix(yielded, first[2])
          /\ Done => yielded = first[2]

C10_Witness ==
    /\ IsHash
    /\ first # NoFirst
    /\ Len(first[2]) = 4
    /\ gen.state = "running"
    /\ Len(yielded) = 2
    /\ summary # NoSummary

=============================================================================
